---- MODULE Spec2Model ----
(***************************************************************************)
(* GameOfLife (src/main.ts, src/simulate.wgsl, src/cell.wgsl).             *)
(*                                                                         *)
(* The state is the GameOfLife object (grid_size, sim_speed, time, step,   *)
(* the two cell-state storage buffers), the position of the setInterval    *)
(* callback (tick, then render), the command buffer of the last submit and *)
(* the picture the last render pass produced.                              *)
(*                                                                         *)
(* Arithmetic.  time and step are kept in units of delta = 1/60 (exact     *)
(* rationals with denominator 60): time counts ticks, step counts          *)
(* sim_speed per tick.  Shader coordinates are 32-bit unsigned integers,   *)
(* kept as two 16-bit limbs <<hi, lo>> so that x - 1 at x = 0 is           *)
(* 2^32 - 1 as in WGSL (TLC's own integers are narrower than 2^32).        *)
(***************************************************************************)
EXTENDS Integers, Sequences, FiniteSets, TLC

VARIABLES grid_size,           \* this.grid_size
          disco_speed,         \* this.disco_speed, a fraction
          sim_speed,           \* this.sim_speed
          time,                \* this.time, in units of 1/60
          step,                \* this.step, in units of 1/60
          cellStateArray,      \* the seed array built by setup
          cell_storage_buffer, \* this.cell_storage_buffer: buffer 0 and buffer 1
          colorBuffer,         \* this.colorBuffer: four corner colours
          pc,                  \* position of the timer callback: "tick" or "render"
          submitted,           \* the command buffer of the last queue.submit
          frame,               \* cells shown full size by the last render pass
          generation,          \* history: generation held by each buffer
          shown                \* history: generation shown by each render pass

vars == <<grid_size, disco_speed, sim_speed, time, step, cellStateArray,
          cell_storage_buffer, colorBuffer, pc, submitted, frame, generation, shown>>

----------------------------------------------------------------------------
(* Bounds of the model. *)

MaxSide == 12
MaxTicks == 4
LongTicks == 61
MaxSpeed == 120

----------------------------------------------------------------------------
(* Program constants. *)

TicksPerSecond == 60
DefaultSpeed == 60
WorkgroupSize == 8
DispatchDivisor == 8
DrawFactor == 2

----------------------------------------------------------------------------
(* 32-bit unsigned integers of the shaders, as limbs <<hi, lo>>. *)

Half == 2^16

ToU32(n) == <<n \div Half, n % Half>>

U32Inc(v) ==
  IF v[2] = Half - 1
  THEN (IF v[1] = Half - 1 THEN <<0, 0>> ELSE <<v[1] + 1, 0>>)
  ELSE <<v[1], v[2] + 1>>

U32Dec(v) ==
  IF v[2] = 0
  THEN (IF v[1] = 0 THEN <<Half - 1, Half - 1>> ELSE <<v[1] - 1, Half - 1>>)
  ELSE <<v[1], v[2] - 1>>

\* v % n for a u32 v and a small positive n
U32Rem(v, n) == (((v[1] % n) * (Half % n)) + (v[2] % n)) % n

----------------------------------------------------------------------------
(* simulate.wgsl *)

\* fn cellIndex(cell: vec2u): (cell.y % grid.y) * grid.x + (cell.x % grid.x)
cellIndex(cell, grid) == (U32Rem(cell[2], grid) * grid) + U32Rem(cell[1], grid)

\* fn cellState(x, y): cellStateIn[cellIndex(vec2u(x, y))]
cellState(x, y, cellStateIn, grid) == cellStateIn[cellIndex(<<x, y>>, grid)]

\* the eight cells simulate reads for invocation cell, in the order of the sum
NeighborReads(cell) ==
  LET x == cell[1]
      y == cell[2]
  IN << <<U32Inc(x), y>>,
        <<U32Dec(x), y>>,
        <<x, U32Inc(y)>>,
        <<x, U32Dec(y)>>,
        <<U32Inc(x), U32Inc(y)>>,
        <<U32Dec(x), U32Dec(y)>>,
        <<U32Inc(x), U32Dec(y)>>,
        <<U32Dec(x), U32Inc(y)>> >>

RECURSIVE SumStates(_, _, _, _)
SumStates(reads, k, cellStateIn, grid) ==
  IF k = 0 THEN 0
  ELSE SumStates(reads, k - 1, cellStateIn, grid)
       + cellState(reads[k][1], reads[k][2], cellStateIn, grid)

aliveNeighbors(cell, cellStateIn, grid) ==
  SumStates(NeighborReads(cell), 8, cellStateIn, grid)

\* faulty variant: three live neighbours store the count instead of 1
RuleValueStoresCount(current, neighbors) ==
  IF neighbors = 2 THEN current
  ELSE IF neighbors = 3 THEN neighbors
  ELSE 0

\* faulty variant: two live neighbours give a live cell instead of the current value
RuleValueAliveOnTwo(current, neighbors) ==
  IF neighbors = 2 THEN 1
  ELSE IF neighbors = 3 THEN 1
  ELSE 0

\* the if / else if / else of simulate: the value stored for one invocation
RuleValue(current, neighbors) ==
  IF neighbors = 2 THEN current
  ELSE IF neighbors = 3 THEN 1
  ELSE 0

simulate(cell, cellStateIn, grid) ==
  RuleValue(cellStateIn[cellIndex(cell, grid)],
            aliveNeighbors(cell, cellStateIn, grid))

----------------------------------------------------------------------------
(* The compute pass of render. *)

\* dispatchWorkgroups(grid_size / 8, ...): the quotient is converted to an
\* unsigned long, which drops its fraction
WorkgroupCount(grid) == grid \div DispatchDivisor

\* global_invocation_id.x and .y range over 0 .. 8 * count - 1
InvocationIds(count) == 0 .. (WorkgroupSize * count - 1)

\* The buffer bound at binding 3 after the pass.  Every invocation id is
\* below 8 * (grid \div 8) <= grid, so invocation (x, y) is the only writer of
\* index y * grid + x and the other indices keep their contents.
ComputePass(cellStateIn, cellStateOut, grid, count) ==
  [i \in 0 .. (grid * grid - 1) |->
     IF (i % grid) \in InvocationIds(count) /\ (i \div grid) \in InvocationIds(count)
     THEN simulate(<<ToU32(i % grid), ToU32(i \div grid)>>, cellStateIn, grid)
     ELSE cellStateOut[i]]

----------------------------------------------------------------------------
(* cell.wgsl and the render pass of render. *)

\* pass.draw(6, grid_size * grid_size * 2)
InstanceCount(grid) == grid * grid * DrawFactor

\* faulty variant: column and row exchanged
vertexCellTransposed(i, grid) == <<i \div grid, i % grid>>

\* vertexMain: cell = (i % grid.x, floor(i / grid.x))
vertexCell(i, grid) == <<i % grid, i \div grid>>

\* gridPos.y = (position.y * state + 1) / grid - 1 + 2 * cell.y / grid is above
\* 1 for every cell.y >= grid, whatever state is: such a quad is clipped.  The
\* instances that read past the end of the buffer are all of this kind.
OnScreen(cell, grid) == cell[1] < grid /\ cell[2] < grid

\* the cells whose quad is drawn with scale factor 1
RenderPass(states, grid) ==
  {vertexCell(i, grid) :
     i \in {j \in 0 .. (InstanceCount(grid) - 1) :
              OnScreen(vertexCell(j, grid), grid) /\ states[j] = 1}}

----------------------------------------------------------------------------
(* Numbers of main.ts that are not whole: exact fractions <<numerator,      *)
(* denominator>> in lowest terms with a positive denominator.  The          *)
(* program computes with doubles; the model computes the exact values.      *)

RECURSIVE Gcd(_, _)
Gcd(a, b) == IF b = 0 THEN a ELSE Gcd(b, a % b)

Abs(n) == IF n < 0 THEN 0 - n ELSE n

Frac(n, d) ==
  LET g == Gcd(Abs(n), Abs(d))
  IN IF d < 0 THEN <<(0 - n) \div g, (0 - d) \div g>> ELSE <<n \div g, d \div g>>

FAdd(a, b) == Frac(a[1] * b[2] + b[1] * a[2], a[2] * b[2])
FSub(a, b) == Frac(a[1] * b[2] - b[1] * a[2], a[2] * b[2])
FMul(a, b) == Frac(a[1] * b[1], a[2] * b[2])
FLess(a, b) == a[1] * b[2] < b[1] * a[2]

\* the whole part of a / b, rounded towards zero, for positive b
FTruncDiv(a, b) ==
  LET n == a[1] * b[2]
      d == a[2] * b[1]
  IN IF n >= 0 THEN n \div d ELSE 0 - ((0 - n) \div d)

\* a % b of the language: the remainder has the sign of a
FRem(a, b) == FSub(a, FMul(b, Frac(FTruncDiv(a, b), 1)))

----------------------------------------------------------------------------
(* main.ts: hslToRgb, hueToRgb and the corner colours of render. *)

\* faulty variant: the hue is not brought up from below zero
hueToRgbNoLift(p, q, t) ==
  LET u == IF FLess(Frac(1, 1), t) THEN FSub(t, Frac(1, 1)) ELSE t
  IN IF FLess(u, Frac(1, 6)) THEN FAdd(p, FMul(FMul(FSub(q, p), Frac(6, 1)), u))
     ELSE IF FLess(u, Frac(1, 2)) THEN q
     ELSE IF FLess(u, Frac(2, 3))
          THEN FAdd(p, FMul(FMul(FSub(q, p), FSub(Frac(2, 3), u)), Frac(6, 1)))
     ELSE p

\* function hueToRgb(p, q, t)
hueToRgb(p, q, t) ==
  LET t1 == IF FLess(t, Frac(0, 1)) THEN FAdd(t, Frac(1, 1)) ELSE t
      u == IF FLess(Frac(1, 1), t1) THEN FSub(t1, Frac(1, 1)) ELSE t1
  IN IF FLess(u, Frac(1, 6)) THEN FAdd(p, FMul(FMul(FSub(q, p), Frac(6, 1)), u))
     ELSE IF FLess(u, Frac(1, 2)) THEN q
     ELSE IF FLess(u, Frac(2, 3))
          THEN FAdd(p, FMul(FMul(FSub(q, p), FSub(Frac(2, 3), u)), Frac(6, 1)))
     ELSE p

\* function hslToRgb(h, s, l)
hslToRgb(h, s, l) ==
  IF s = Frac(0, 1) THEN <<l, l, l>>
  ELSE LET q == IF FLess(l, Frac(1, 2)) THEN FMul(l, FAdd(Frac(1, 1), s))
                ELSE FSub(FAdd(l, s), FMul(l, s))
           p == FSub(FMul(Frac(2, 1), l), q)
       IN <<hueToRgb(p, q, FAdd(h, Frac(1, 3))),
            hueToRgb(p, q, h),
            hueToRgb(p, q, FSub(h, Frac(1, 3)))>>

\* this.time in seconds, from the count of ticks
Seconds(ticks) == Frac(ticks, TicksPerSecond)

\* faulty variant: the remainder is taken by disco_speed, not by 1 / disco_speed
GradientOffsetWrongPeriod(ticks, disco) == FMul(FRem(Seconds(ticks), disco), disco)

\* offset = (this.time % (1 / this.disco_speed)) * this.disco_speed
GradientOffset(ticks, disco) ==
  FMul(FRem(Seconds(ticks), Frac(disco[2], disco[1])), disco)

\* the hue of corner colour k: offset + 0.2, + 0.4, + 0.6, + 0.8
CornerHue(offset, k) == FAdd(offset, Frac(k, 5))

\* color1 .. color4 with alpha 1, as written into the colour buffer
CornerColors(ticks, disco) ==
  [k \in 1 .. 4 |->
     LET c == hslToRgb(CornerHue(GradientOffset(ticks, disco), k), Frac(1, 2), Frac(1, 2))
     IN <<c[1], c[2], c[3], Frac(1, 1)>>]

\* the colour buffer as created: 4 * 4 zero floats
EmptyColors == [k \in 1 .. 4 |-> <<Frac(0, 1), Frac(0, 1), Frac(0, 1), Frac(0, 1)>>]

\* new GameOfLife(256, 0.5, 60): disco_speed = 0.5
DefaultDisco == Frac(1, 2)

----------------------------------------------------------------------------
(* main.ts: setup, tick, render. *)

\* faulty variant: the second bind group keeps buffer 1 at binding 3 as well
bindGroupsNotSwapped ==
  [g \in 0 .. 1 |-> IF g = 0 THEN [binding2 |-> 0, binding3 |-> 1]
                             ELSE [binding2 |-> 1, binding3 |-> 1]]

\* the two bind groups of setup: binding 2 (read) and binding 3 (written)
bindGroups ==
  [g \in 0 .. 1 |-> IF g = 0 THEN [binding2 |-> 0, binding3 |-> 1]
                             ELSE [binding2 |-> 1, binding3 |-> 0]]

\* faulty variant: the step is halved before its parity is taken
BindIndexOfHalf(s) == (s \div (2 * TicksPerSecond)) % 2

\* Math.floor(this.step % 2), step in units of 1/60
BindIndex(s) == (s % (2 * TicksPerSecond)) \div TicksPerSecond

\* faulty variant: the speed multiplier left out of the step increment
StepWithoutSpeed(s, speed) == s + 1

\* this.step += delta * this.sim_speed
StepAfterTick(s, speed) == s + speed

\* faulty variant: only the first buffer is uploaded, the second stays zero
SeedUploadFirstOnly(arr) == [b \in 0 .. 1 |-> IF b = 0 THEN arr ELSE [i \in DOMAIN arr |-> 0]]

\* the two writeBuffer calls of setup
SeedUpload(arr) == [b \in 0 .. 1 |-> arr]

\* the passes of one command encoder, in the order render encodes them
EncodedPasses == <<"render", "compute">>

NoSubmit ==
  [bindGroup |-> 2, read |-> 2, written |-> 2, instances |-> 0, workgroups |-> 0,
   passes |-> << >>]

\* a seed array with exactly the cells of live alive
SeedOf(grid, live) ==
  [i \in 0 .. (grid * grid - 1) |-> IF <<i % grid, i \div grid>> \in live THEN 1 ELSE 0]

LiveCells(buffer, grid) ==
  {<<i % grid, i \div grid>> : i \in {j \in 0 .. (grid * grid - 1) : buffer[j] = 1}}

Single(grid, x, y) == {<<x, y>>}

\* a horizontal row of three centred on (x, y), and the vertical column
BlinkerH(grid, x, y) == {<<(x + grid - 1) % grid, y>>, <<x, y>>, <<(x + 1) % grid, y>>}
BlinkerV(grid, x, y) == {<<x, (y + grid - 1) % grid>>, <<x, y>>, <<x, (y + 1) % grid>>}

\* a 2x2 block with corner (x, y)
Block(grid, x, y) ==
  {<<x, y>>, <<(x + 1) % grid, y>>, <<x, (y + 1) % grid>>, <<(x + 1) % grid, (y + 1) % grid>>}

\* where the seed patterns are placed: everywhere on the sides up to MaxSide,
\* and at the corner where the coordinates wrap on the larger sides
Anchors(grid) == IF grid <= MaxSide THEN 0 .. (grid - 1) ELSE {0, grid - 1}

Seeds(grid) ==
  {SeedOf(grid, {})}
  \cup {SeedOf(grid, Single(grid, x, y)) : x \in Anchors(grid), y \in Anchors(grid)}
  \cup {SeedOf(grid, BlinkerH(grid, x, y)) : x \in Anchors(grid), y \in Anchors(grid)}
  \cup {SeedOf(grid, Block(grid, x, y)) : x \in Anchors(grid), y \in Anchors(grid)}

SimSpeeds == {DefaultSpeed \div 2, DefaultSpeed, 2 * DefaultSpeed, 3 * DefaultSpeed}

\* the constructor and setup
SetupWith(grid, disco, speed, seed) ==
  /\ grid_size = grid
  /\ disco_speed = disco
  /\ sim_speed = speed
  /\ time = 0
  /\ step = 0
  /\ cellStateArray = seed
  /\ cell_storage_buffer = SeedUpload(seed)
  /\ colorBuffer = EmptyColors
  /\ pc = "tick"
  /\ submitted = NoSubmit
  /\ frame = {}
  /\ generation = [b \in 0 .. 1 |-> 0]
  /\ shown = << >>

\* the constructor and setup with the disco_speed main passes
Setup(grid, speed, seed) == SetupWith(grid, DefaultDisco, speed, seed)

\* the grid sides of the model: every side up to MaxSide, and the sides of two
\* and of three workgroups
Sides == (1 .. MaxSide) \cup {2 * WorkgroupSize, 3 * WorkgroupSize}

Init ==
  \E grid \in Sides :
    \E speed \in SimSpeeds :
      \E seed \in Seeds(grid) :
        Setup(grid, speed, seed)

\* faulty variant: a timer callback starts while the one before it still has
\* its render to run
CallbackMayStartAnytime(position) == TRUE

\* The setInterval callback is a task of the event loop.  tick and render
\* contain no await of their own, so after "await game.tick()" the rest of the
\* callback is a microtask, and the event loop runs every pending microtask
\* before it starts the next task: a callback starts only when the one before
\* it has run its render.
CallbackMayStart(position) == position = "tick"

\* the start of a timer callback and its tick(): time += delta;
\* step += delta * sim_speed
TickUpTo(limit) ==
  /\ CallbackMayStart(pc)
  /\ time < limit
  /\ time' = time + 1
  /\ step' = StepAfterTick(step, sim_speed)
  /\ pc' = "render"
  /\ UNCHANGED <<grid_size, disco_speed, sim_speed, cellStateArray, cell_storage_buffer,
                 colorBuffer, submitted, frame, generation, shown>>

Tick == TickUpTo(MaxTicks)

\* render(): the colour upload, the render pass, the compute pass, one submit
Render ==
  /\ pc = "render"
  /\ colorBuffer' = CornerColors(time, disco_speed)
  /\ LET g == BindIndex(step)
         bindGroup == bindGroups[g]
         in == bindGroup.binding2
         out == bindGroup.binding3
         count == WorkgroupCount(grid_size)
     IN /\ frame' = RenderPass(cell_storage_buffer[in], grid_size)
        /\ cell_storage_buffer' =
             [cell_storage_buffer EXCEPT
                ![out] = ComputePass(cell_storage_buffer[in], cell_storage_buffer[out],
                                     grid_size, count)]
        /\ submitted' = [bindGroup |-> g, read |-> in, written |-> out,
                         instances |-> InstanceCount(grid_size),
                         workgroups |-> count, passes |-> EncodedPasses]
        /\ generation' = [generation EXCEPT ![out] = generation[in] + 1]
        /\ shown' = Append(shown, generation[in])
  /\ pc' = "tick"
  /\ UNCHANGED <<grid_size, disco_speed, sim_speed, time, step, cellStateArray>>

Next == Tick \/ Render

Spec == Init /\ [][Next]_vars

\* One second and one tick of the clock at every integer speed up to MaxSpeed,
\* on the 8x8 grid seeded with the row of three at y = 4, x in {3, 4, 5}.
InitLong ==
  \E speed \in 1 .. MaxSpeed :
    Setup(WorkgroupSize, speed, SeedOf(WorkgroupSize, BlinkerH(WorkgroupSize, 4, 4)))

TickLong == TickUpTo(LongTicks)

NextLong == TickLong \/ Render

SpecLong == InitLong /\ [][NextLong]_vars

----------------------------------------------------------------------------
(* Reference definitions the claims compare the program with. *)

\* the standard Game of Life transition table
LifeTable(current, neighbors) ==
  IF current = 0
  THEN (IF neighbors = 3 THEN 1 ELSE 0)
  ELSE (IF neighbors = 2 \/ neighbors = 3 THEN 1 ELSE 0)

\* the eight Moore offsets, in the order simulate adds them
Offsets ==
  << <<1, 0>>, <<-1, 0>>, <<0, 1>>, <<0, -1>>, <<1, 1>>, <<-1, -1>>, <<1, -1>>, <<-1, 1>> >>

\* index of the cell ((x + dx) mod grid, (y + dy) mod grid)
TorusIndex(x, y, d, grid) ==
  (((y + d[2] + grid) % grid) * grid) + ((x + d[1] + grid) % grid)

RECURSIVE TorusCount(_, _, _, _, _)
TorusCount(buffer, x, y, k, grid) ==
  IF k = 0 THEN 0
  ELSE TorusCount(buffer, x, y, k - 1, grid) + buffer[TorusIndex(x, y, Offsets[k], grid)]

\* one step of the Game of Life on the grid x grid torus
ReferenceStep(buffer, grid) ==
  [i \in 0 .. (grid * grid - 1) |->
     LifeTable(buffer[i], TorusCount(buffer, i % grid, i \div grid, 8, grid))]

Submitted == submitted # NoSubmit

ReadBuffer == cell_storage_buffer[submitted.read]
WrittenBuffer == cell_storage_buffer[submitted.written]

----------------------------------------------------------------------------
(* Claims. *)

\* C1: for every grid and every cell, one update pass leaves in the buffer it
\* writes the standard Game of Life result computed from the buffer it reads
\* (eight Moore neighbours on the torus, standard transition table).
C1_UpdateIsLifeStep ==
  (Submitted /\ pc = "tick") =>
    WrittenBuffer = ReferenceStep(ReadBuffer, grid_size)

\* C2: for every cell the update pass computes, its eight neighbour reads hit
\* the cells ((x + dx) mod N, (y + dy) mod N); at x = 0 the read at x - 1 is
\* column N - 1 and at y = 0 the read at y - 1 is row N - 1.
C2_NeighborReadsWrap ==
  Submitted =>
    \A x \in InvocationIds(submitted.workgroups) :
      \A y \in InvocationIds(submitted.workgroups) :
        \A k \in 1 .. 8 :
          cellIndex(NeighborReads(<<ToU32(x), ToU32(y)>>)[k], grid_size)
            = TorusIndex(x, y, Offsets[k], grid_size)

\* C3: in every tick, for either bind group, the buffer the update pass writes
\* (binding 3) is another buffer than the one the render pass and the update
\* pass read (binding 2), and the read buffer holds after the tick what it
\* held before it.
C3_BufferIsolation ==
  [][pc = "render" =>
       /\ \A g \in 0 .. 1 : bindGroups[g].binding3 # bindGroups[g].binding2
       /\ submitted'.written # submitted'.read
       /\ cell_storage_buffer'[submitted'.read] = cell_storage_buffer[submitted'.read]]_vars

\* C3 witness: a tick with the second bind group has run and its update pass
\* wrote contents that differ from the buffer it read.
C3_Witness ==
  /\ pc = "tick"
  /\ Submitted
  /\ submitted.bindGroup = 1
  /\ submitted.workgroups > 0
  /\ WrittenBuffer # ReadBuffer

\* C4 (as claimed): for every positive speed multiplier, each tick after the
\* first reads the buffer the tick before it wrote and writes the buffer the
\* tick before it read.
C4_RolesReverseEveryTick ==
  [][(pc = "render" /\ Submitted) =>
       (submitted'.read = submitted.written /\ submitted'.written = submitted.read)]_vars

\* C4 (amended): when the speed multiplier is an odd multiple of 60 (step grows
\* by an odd whole number per tick), each tick after the first reads the
\* buffer the tick before it wrote and writes the buffer the tick before it read.
C4_RolesReverseAtOddSpeed ==
  [][(pc = "render" /\ Submitted /\ sim_speed % (2 * TicksPerSecond) = TicksPerSecond) =>
       (submitted'.read = submitted.written /\ submitted'.written = submitted.read)]_vars

\* C4 witness: at speed 60 the second tick has rendered buffer 0, which the
\* first tick wrote, as generation 1.
C4_Witness ==
  /\ sim_speed = DefaultSpeed
  /\ pc = "tick"
  /\ time = 2
  /\ submitted.read = 0
  /\ shown = <<0, 1>>

\* C5: for every positive integer speed multiplier s and every tick n, the
\* generation shown by tick n + 60 is the generation shown by tick n plus s.
C5_SpeedIsStepsPerSecond ==
  \A n \in 1 .. Len(shown) :
    (n + TicksPerSecond <= Len(shown)) =>
      shown[n + TicksPerSecond] = shown[n] + sim_speed

\* ceil(a / b) for positive b
CeilDiv(a, b) == (a + b - 1) \div b

\* C6: for every positive grid side the update pass dispatches
\* ceil(side / 8) x ceil(side / 8) workgroups, and after the pass every index
\* 0 .. side * side - 1 of the written buffer holds the rule's result.
C6_FullBufferWritten ==
  (Submitted /\ pc = "tick") =>
    /\ submitted.workgroups = CeilDiv(grid_size, WorkgroupSize)
    /\ \A i \in 0 .. (grid_size * grid_size - 1) :
         WrittenBuffer[i]
           = simulate(<<ToU32(i % grid_size), ToU32(i \div grid_size)>>,
                      ReadBuffer, grid_size)

\* C7: the render pass draws exactly width * height instances, so every
\* instance index is below width * height and maps to a row below height.
C7_OneInstancePerCell ==
  Submitted =>
    /\ submitted.instances = grid_size * grid_size
    /\ \A i \in 0 .. (submitted.instances - 1) :
         i < grid_size * grid_size /\ vertexCell(i, grid_size)[2] < grid_size

\* C8: after construction and setup time = 0, step = 0 and both buffers hold
\* the seed; the first render pass, which runs after the first clock advance
\* and before any update pass, shows the seed in either orientation.
C8_FirstRenderShowsSeed ==
  /\ (~Submitted /\ pc = "tick") =>
       (time = 0 /\ step = 0 /\ \A b \in 0 .. 1 : cell_storage_buffer[b] = cellStateArray)
  /\ (~Submitted /\ pc = "render") =>
       (time = 1 /\ \A b \in 0 .. 1 : cell_storage_buffer[b] = cellStateArray)
  /\ (Submitted /\ time = 1) =>
       (frame = LiveCells(cellStateArray, grid_size) /\ shown = <<0>>)

\* C8 witness: the first tick chose the orientation that reads buffer 1 and
\* its render pass showed a seed with live cells.
C8_Witness ==
  /\ Submitted
  /\ time = 1
  /\ submitted.read = 1
  /\ frame # {}
  /\ frame = LiveCells(cellStateArray, grid_size)

\* C9: on the 8x8 grid seeded with a horizontal row of three (at any place on
\* the torus) every odd generation is the vertical column of three through
\* the same centre and every even generation is the seed row again, in both
\* buffers and in the picture.
C9_BlinkerPeriodTwo ==
  (grid_size = 8) =>
    \A x \in 0 .. 7 : \A y \in 0 .. 7 :
      (cellStateArray = SeedOf(8, BlinkerH(8, x, y))) =>
        /\ \A b \in 0 .. 1 :
             LiveCells(cell_storage_buffer[b], 8)
               = (IF generation[b] % 2 = 0 THEN BlinkerH(8, x, y) ELSE BlinkerV(8, x, y))
        /\ Submitted =>
             frame = (IF shown[Len(shown)] % 2 = 0 THEN BlinkerH(8, x, y)
                                                   ELSE BlinkerV(8, x, y))

\* C9 witness: the row through the corner (0, 0), wrapping in x, has been
\* updated twice at speed 60 and the buffer written last holds the row again,
\* the other buffer the column.
C9_Witness ==
  /\ grid_size = 8
  /\ sim_speed = DefaultSpeed
  /\ cellStateArray = SeedOf(8, BlinkerH(8, 0, 0))
  /\ pc = "tick"
  /\ time = 2
  /\ generation[submitted.written] = 2
  /\ LiveCells(WrittenBuffer, 8) = {<<7, 0>>, <<0, 0>>, <<1, 0>>}
  /\ LiveCells(ReadBuffer, 8) = {<<0, 7>>, <<0, 0>>, <<0, 1>>}

\* C10: on an N x N grid, N >= 4, seeded with a 2x2 block anywhere on the
\* torus, after any number of ticks both buffers hold that block and the
\* picture shows it.
C10_BlockIsStill ==
  LET live == LiveCells(cellStateArray, grid_size)
  IN (grid_size >= 4 /\ \E x \in 0 .. (grid_size - 1) : \E y \in 0 .. (grid_size - 1) :
                            live = Block(grid_size, x, y)) =>
       /\ \A b \in 0 .. 1 : cell_storage_buffer[b] = cellStateArray
       /\ Submitted => frame = live

----------------------------------------------------------------------------
(* The compute pass, invocation by invocation.                              *)
(* The device runs the invocations of a dispatch in an order of its own     *)
(* choosing.  RenderInOrder is Render with that order made explicit: the    *)
(* invocations run one after the other in a chosen order, each reading the  *)
(* buffer at binding 2 as it is at that moment and storing into the buffer  *)
(* at binding 3.                                                            *)

MaxStride == 3

\* the k-th invocation (k from 0) of a dispatch of count x count workgroups
InvocationAt(k, count) ==
  <<k % (WorkgroupSize * count), k \div (WorkgroupSize * count)>>

\* Orders of the n invocations of a dispatch: position p runs invocation
\* (p * stride) % n, for the strides that make this a permutation, upwards
\* and downwards.
InvocationOrders(n) ==
  {[p \in 0 .. (n - 1) |-> (p * stride) % n] :
     stride \in {t \in 1 .. MaxStride : \A d \in 2 .. t : ~(t % d = 0 /\ n % d = 0)}}
  \cup
  {[p \in 0 .. (n - 1) |-> ((n - 1 - p) * stride) % n] :
     stride \in {t \in 1 .. MaxStride : \A d \in 2 .. t : ~(t % d = 0 /\ n % d = 0)}}

\* the buffers after the first done invocations of order have run
RECURSIVE RunInvocations(_, _, _, _, _, _, _)
RunInvocations(buffers, in, out, grid, count, order, done) ==
  IF done = 0 THEN buffers
  ELSE LET before == RunInvocations(buffers, in, out, grid, count, order, done - 1)
           id == InvocationAt(order[done - 1], count)
           cell == <<ToU32(id[1]), ToU32(id[2])>>
       IN [before EXCEPT ![out][cellIndex(cell, grid)] = simulate(cell, before[in], grid)]

RenderInOrder ==
  /\ pc = "render"
  /\ colorBuffer' = CornerColors(time, disco_speed)
  /\ LET g == BindIndex(step)
         bindGroup == bindGroups[g]
         in == bindGroup.binding2
         out == bindGroup.binding3
         count == WorkgroupCount(grid_size)
         n == (WorkgroupSize * count) * (WorkgroupSize * count)
     IN /\ frame' = RenderPass(cell_storage_buffer[in], grid_size)
        /\ \E order \in InvocationOrders(n) :
             cell_storage_buffer' =
               RunInvocations(cell_storage_buffer, in, out, grid_size, count, order, n)
        /\ submitted' = [bindGroup |-> g, read |-> in, written |-> out,
                         instances |-> InstanceCount(grid_size),
                         workgroups |-> count, passes |-> EncodedPasses]
        /\ generation' = [generation EXCEPT ![out] = generation[in] + 1]
        /\ shown' = Append(shown, generation[in])
  /\ pc' = "tick"
  /\ UNCHANGED <<grid_size, disco_speed, sim_speed, time, step, cellStateArray>>

\* seeds placed along the diagonal of the grid
DiagonalSeeds(grid) ==
  {SeedOf(grid, Single(grid, x, x)) : x \in 0 .. (grid - 1)}
  \cup {SeedOf(grid, BlinkerH(grid, x, x)) : x \in 0 .. (grid - 1)}
  \cup {SeedOf(grid, Block(grid, x, x)) : x \in 0 .. (grid - 1)}

\* the 8x8 grid and the 12x12 grid (one workgroup each) at every speed
InitOrder ==
  \E grid \in {WorkgroupSize, WorkgroupSize + (WorkgroupSize \div 2)} :
    \E speed \in SimSpeeds :
      \E seed \in DiagonalSeeds(grid) :
        Setup(grid, speed, seed)

NextOrder == Tick \/ RenderInOrder

SpecOrder == InitOrder /\ [][NextOrder]_vars

\* step after n ticks
RECURSIVE ReplayStep(_, _)
ReplayStep(speed, n) ==
  IF n = 0 THEN 0 ELSE StepAfterTick(ReplayStep(speed, n - 1), speed)

\* the two buffers after n whole ticks from seed, computed from the seed, the
\* grid side and the speed alone
RECURSIVE ReplayBuffers(_, _, _, _)
ReplayBuffers(seed, grid, speed, n) ==
  IF n = 0 THEN SeedUpload(seed)
  ELSE LET before == ReplayBuffers(seed, grid, speed, n - 1)
           bindGroup == bindGroups[BindIndex(ReplayStep(speed, n))]
       IN [before EXCEPT
             ![bindGroup.binding3] =
                ComputePass(before[bindGroup.binding2], before[bindGroup.binding3],
                            grid, WorkgroupCount(grid))]

\* C11: the contents of both buffers after every tick are determined by the
\* seed, the grid side and the speed: every run from the same seed holds the
\* same buffers, in whatever order the invocations of each update pass ran.
C11_RunsAgree ==
  cell_storage_buffer =
    ReplayBuffers(cellStateArray, grid_size, sim_speed,
                  IF pc = "tick" THEN time ELSE time - 1)

\* C11 witness: two update passes have run on a seed that changes from one
\* generation to the next.
C11_Witness ==
  /\ pc = "tick"
  /\ time = 2
  /\ submitted.workgroups > 0
  /\ cell_storage_buffer[0] # cell_storage_buffer[1]
  /\ cell_storage_buffer[submitted.written] # cellStateArray

----------------------------------------------------------------------------
(* The colour gradient. *)

ColorTicks == 125
GradientTicks == 40

\* disco_speed 0.5 (the value main passes), 1, 1.5 and 2
DiscoSpeeds == {Frac(1, 2), Frac(1, 1), Frac(3, 2), Frac(2, 1)}

\* The driver over more than one period of the slowest gradient, on the 8x8
\* grid seeded with the row of three.
InitColor ==
  \E disco \in DiscoSpeeds :
    SetupWith(WorkgroupSize, disco, DefaultSpeed,
              SeedOf(WorkgroupSize, BlinkerH(WorkgroupSize, 4, 4)))

TickColor == TickUpTo(ColorTicks)

NextColor == TickColor \/ Render

SpecColor == InitColor /\ [][NextColor]_vars

\* render as a function of this.time: one call of render on an object whose
\* time is any whole number of ticks from -GradientTicks to GradientTicks
\* (the driver itself never makes time negative).
InitGradient ==
  \E disco \in DiscoSpeeds :
    \E t \in (0 - GradientTicks) .. GradientTicks :
      /\ grid_size = WorkgroupSize
      /\ disco_speed = disco
      /\ sim_speed = DefaultSpeed
      /\ time = t
      /\ step = 0
      /\ cellStateArray = SeedOf(WorkgroupSize, BlinkerH(WorkgroupSize, 4, 4))
      /\ cell_storage_buffer = SeedUpload(cellStateArray)
      /\ colorBuffer = EmptyColors
      /\ pc = "render"
      /\ submitted = NoSubmit
      /\ frame = {}
      /\ generation = [b \in 0 .. 1 |-> 0]
      /\ shown = << >>

NextGradient == Render

SpecGradient == InitGradient /\ [][NextGradient]_vars

\* render has run and the clock has not advanced since
Rendered == Submitted /\ pc = "tick"

\* 0 <= c <= 1
InUnit(c) == ~FLess(c, Frac(0, 1)) /\ ~FLess(Frac(1, 1), c)

ColorsInUnit ==
  \A k \in 1 .. 4 :
    /\ \A ch \in 1 .. 3 : InUnit(colorBuffer[k][ch])
    /\ colorBuffer[k][4] = Frac(1, 1)

PeriodTicks(disco) == (TicksPerSecond * disco[2]) \div disco[1]

\* C13: the corner colours are periodic in time with period 1 / disco_speed
\* and the offset is in [0, 1): the colours a tick uploads are the colours
\* computed one period earlier and one period later.
C13_GradientPeriodic ==
  Rendered =>
    LET period == PeriodTicks(disco_speed)
        offset == GradientOffset(time, disco_speed)
    IN /\ ~FLess(offset, Frac(0, 1))
       /\ FLess(offset, Frac(1, 1))
       /\ colorBuffer = CornerColors(time + period, disco_speed)
       /\ (time > period) => colorBuffer = CornerColors(time - period, disco_speed)

\* C13 witness: with disco_speed 0.5 the tick one period (120 ticks) after the
\* first has uploaded the colours of the first.
C13_Witness ==
  /\ Rendered
  /\ disco_speed = DefaultDisco
  /\ time = PeriodTicks(DefaultDisco) + 1
  /\ colorBuffer = CornerColors(1, DefaultDisco)
  /\ colorBuffer # CornerColors(2, DefaultDisco)

\* C14: for each of the four hues offset + phase the triple hslToRgb returns
\* is the triple it returns for the hue taken mod 1.
C14_HuePeriodic ==
  Rendered =>
    \A k \in 1 .. 4 :
      LET h == CornerHue(GradientOffset(time, disco_speed), k)
          c == hslToRgb(FRem(h, Frac(1, 1)), Frac(1, 2), Frac(1, 2))
      IN <<colorBuffer[k][1], colorBuffer[k][2], colorBuffer[k][3]>> = c

----------------------------------------------------------------------------
(* The bind group, the cell values, the layout, the callbacks, the          *)
(* generations.                                                             *)

\* C15: the bind group render chooses is floor(simStep) mod 2 of the
\* accumulated step: even reads buffer 0 and writes buffer 1, odd reads
\* buffer 1 and writes buffer 0, whatever the count of rendered frames.
C15_BindGroupIsStepParity ==
  Rendered =>
    LET parity == (step \div TicksPerSecond) % 2
    IN /\ step >= 0
       /\ submitted.bindGroup = parity
       /\ submitted.read = parity
       /\ submitted.written = 1 - parity

\* C15 witness: a step that is not whole (1.5 at speed 90 after one tick, or
\* later) selected the odd orientation at a frame count of other parity or
\* value than floor(step).
C15_Witness ==
  /\ Rendered
  /\ step % TicksPerSecond # 0
  /\ submitted.read = 1
  /\ submitted.written = 0
  /\ time # step \div TicksPerSecond

\* C16: in every reachable state every cell of both buffers is 0 or 1.
C16_CellsAreBits ==
  \A b \in 0 .. 1 :
    \A i \in 0 .. (grid_size * grid_size - 1) : cell_storage_buffer[b][i] \in {0, 1}

\* C16 witness: an update pass has written a 1 where the buffer it read has 0
\* and a 0 where it has 1.
C16_Witness ==
  /\ Rendered
  /\ \E i \in 0 .. (grid_size * grid_size - 1) : WrittenBuffer[i] = 1 /\ ReadBuffer[i] = 0
  /\ \E i \in 0 .. (grid_size * grid_size - 1) : WrittenBuffer[i] = 0 /\ ReadBuffer[i] = 1

\* C17: for every cell (x, y) of the grid the render instance y * width + x
\* is placed at (x, y) and scaled by the buffer entry at the index cellIndex
\* gives for (x, y); index -> (x, y) -> index is the identity.
C17_LayoutsAgree ==
  Rendered =>
    /\ \A x \in 0 .. (grid_size - 1) : \A y \in 0 .. (grid_size - 1) :
         LET i == y * grid_size + x
         IN /\ vertexCell(i, grid_size) = <<x, y>>
            /\ cellIndex(<<ToU32(x), ToU32(y)>>, grid_size) = i
            /\ (<<x, y>> \in frame) = (ReadBuffer[cellIndex(<<ToU32(x), ToU32(y)>>, grid_size)] = 1)
    /\ \A i \in 0 .. (grid_size * grid_size - 1) :
         LET c == vertexCell(i, grid_size)
         IN cellIndex(<<ToU32(c[1]), ToU32(c[2])>>, grid_size) = i

\* C17 witness: a picture that is not its own transpose has been drawn: the
\* cell in the last column of the first row is shown, the cell in the first
\* column of the last row is not.
C17_Witness ==
  /\ Rendered
  /\ grid_size > 1
  /\ <<grid_size - 1, 0>> \in frame
  /\ <<0, grid_size - 1>> \notin frame

C19_GenerationsAdvanceByOne ==
  /\ \A n \in 1 .. (Len(shown) - 1) : (shown[n + 1] - shown[n]) \in {0, 1}
  /\ Submitted => generation[submitted.written] = generation[submitted.read] + 1

\* C19 witness: a run in which the shown generation stayed for one tick and
\* then advanced, and the buffers hold generations 2 and 1.
C19_Witness ==
  /\ Rendered
  /\ Len(shown) >= 3
  /\ shown[2] = shown[1]
  /\ shown[3] = shown[2] + 1
  /\ generation[submitted.written] = 2
  /\ generation[submitted.read] = 1

====
